---- MODULE Spec2Model ----
(***************************************************************************)
(* pw-autolink (src/main.rs): the handler on_event and the link info       *)
(* listener it registers, run against the PipeWire registry.  One action   *)
(* per notification the main loop can dispatch.                            *)
(*                                                                         *)
(* Program state (struct State): relevant_nodes, node_by_name,             *)
(* created_links, temp_links; cfg is the ConfigCache built once by         *)
(* parse_cmdline; running is FALSE once a handler has panicked.            *)
(* History variables (not read by any handler): evn numbers the port       *)
(* notifications (a Port carries its number as ev), reqs is the set of     *)
(* create_link calls made, orphaned / misdirected collect the numbers of   *)
(* the ports that the handler dropped for want of a tracked parent / at    *)
(* the direction check, last is what the latest step handled with the      *)
(* destroy_global calls it made, delivered is the position in the script   *)
(* of SpecReplay, seen is the set of notifications recorded by the          *)
(* specifications that deliver a notification at most once.                *)
(*                                                                         *)
(* The server side is the environment: any notification may arrive at any  *)
(* time, with any id (ids are reused, names are not unique, a notification *)
(* may come again).  The global id of a link the engine asked for is       *)
(* chosen when a notification about the link is delivered.                 *)
(***************************************************************************)
EXTENDS Integers, Sequences, FiniteSets, TLC

VARIABLES cfg, relevant_nodes, node_by_name, created_links, temp_links,
          running, evn, reqs, orphaned, misdirected, last, delivered, seen

state == <<relevant_nodes, node_by_name, created_links, temp_links>>
vars == <<cfg, relevant_nodes, node_by_name, created_links, temp_links,
          running, evn, reqs, orphaned, misdirected, last, delivered, seen>>

\* ---------------------------------------------------------------- bounds
\* number of port notifications one behaviour delivers
MaxPortEvents == 3

\* ------------------------------------------------------------ value sets
\* ids the registry gives to nodes, links and ports
NodeIds == {1, 2}
LinkIds == {30, 31}
PortIds == {10, 20, 21}
Names == {"A", "B", "X", "Z"}
DirIn == "IN"
DirOut == "OUT"
Directions == {DirIn, DirOut}
\* the ports the graph has: port 10 is channel FL of node 1, and so on; a
\* notification may give either direction
NodeOfPort(pid) == pid \div 10
ChannelOfPort(pid) == IF pid % 10 = 0 THEN "FL" ELSE "FR"
\* the ids a removal is delivered for: every node and link id, and a port id
RemovableIds == NodeIds \cup LinkIds \cup {10}

\* ------------------------------------------------------------ hash maps
EmptyMap == [k \in {} |-> 0]
MapInsert(m, k, v) == [x \in (DOMAIN m) \cup {k} |-> IF x = k THEN v ELSE m[x]]
MapRemove(m, k) == [x \in (DOMAIN m) \ {k} |-> m[x]]

\* -------------------------------------------------------- parse_cmdline
\* one --connect value "output,input" inserts the pair under both names
ConnectInsert(m, pair) ==
    MapInsert(MapInsert(m, pair[1], pair), pair[2], pair)

RECURSIVE ConnectOf(_)
ConnectOf(pairs) ==
    IF pairs = <<>> THEN EmptyMap
    ELSE ConnectInsert(ConnectOf(SubSeq(pairs, 1, Len(pairs) - 1)), pairs[Len(pairs)])

ConfigCache(pairs, din, dout) ==
    LET c == ConnectOf(pairs) IN
    [connect    |-> c,
     delete_in  |-> [n \in din |-> n],
     delete_out |-> [n \in dout |-> n],
     all        |-> (DOMAIN c) \cup din \cup dout]

\* the command lines the model is run with
Configs ==
    { ConfigCache(<< <<"A", "B">> >>, {"B", "X"}, {"X"}) }

\* ------------------------------------------------------------- records
NodeData(name, id) == [name |-> name, id |-> id, ports |-> <<>>]
Port(id, node, channel, direction, ev) ==
    [id |-> id, node |-> node, channel |-> channel, direction |-> direction, ev |-> ev]

\* a create_link call: the two ports, and whether create_object returned Ok
Request(pout, pin, ok) == [pout |-> pout, pin |-> pin, ok |-> ok]

\* the number of the port notification that made the call
CallOf(r) == IF r.pout.ev > r.pin.ev THEN r.pout.ev ELSE r.pin.ev

\* an entry of temp_links: the proxy id of the link, and the call it came from
TempLink(local, call) == [local |-> local, call |-> call]

\* what the latest step handled: "link" with the Link object's id and nodes and
\* the destroy_global calls the handler made, "port" with the Port object,
\* "other" for any other notification
NoPort == Port(0, 0, "", "", 0)
Handled(kind, id, node_out, node_in, destroyed) ==
    [kind |-> kind, id |-> id, node_out |-> node_out, node_in |-> node_in,
     destroyed |-> destroyed, port |-> NoPort]
HandledPort(port) ==
    [kind |-> "port", id |-> port.id, node_out |-> 0, node_in |-> 0,
     destroyed |-> <<>>, port |-> port]
NotLink == Handled("other", 0, 0, 0, <<>>)

\* ---------------------------------------------------------------- Init
Init ==
    /\ cfg \in Configs
    /\ relevant_nodes = EmptyMap
    /\ node_by_name = EmptyMap
    /\ created_links = {}
    /\ temp_links = <<>>
    /\ running = TRUE
    /\ evn = 0
    /\ reqs = {}
    /\ orphaned = {}
    /\ misdirected = {}
    /\ last = NotLink
    /\ delivered = 0
    /\ seen = {}

\* ------------------------------------------- on_event: Type::Node arm
\* the check accepting every name
IsRelevantAlways(name) == name \in Names

\* cfg_by_name.all.contains(name)
IsRelevant(name) == name \in cfg.all

NodeArmNodes(id, name) ==
    IF IsRelevant(name) THEN MapInsert(relevant_nodes, id, NodeData(name, id))
    ELSE relevant_nodes

NodeArmNames(id, name) ==
    IF IsRelevant(name) THEN MapInsert(node_by_name, name, id) ELSE node_by_name

EndpointCreatedH(id, name) ==
    /\ running
    /\ relevant_nodes' = NodeArmNodes(id, name)
    /\ node_by_name' = NodeArmNames(id, name)
    /\ last' = NotLink
    /\ UNCHANGED <<cfg, created_links, temp_links, running, evn, reqs,
                   orphaned, misdirected>>

\* ------------------------------------------- on_event: Type::Port arm
\* the lookup falling back on some tracked node
ParentKeyAny(port) ==
    IF port.node \in DOMAIN relevant_nodes \/ DOMAIN relevant_nodes = {} THEN port.node
    ELSE CHOOSE n \in DOMAIN relevant_nodes : TRUE

\* state.relevant_nodes.get(&port.node)
ParentKey(port) == port.node

\* the direction check without its second return
RoleMismatchInOnly(port, parent_name, rule) ==
    port.direction = DirIn /\ parent_name # rule[2]

\* the two early returns of the direction check
RoleMismatch(port, parent_name, rule) ==
    IF port.direction = DirIn /\ parent_name # rule[2] THEN TRUE
    ELSE port.direction = DirOut /\ parent_name # rule[1]

\* other_name naming the port's own side of the rule
OtherNameOwn(port, rule) == IF port.direction = DirIn THEN rule[2] ELSE rule[1]

\* other_name
OtherName(port, rule) == IF port.direction = DirIn THEN rule[1] ELSE rule[2]

\* the predicate of ports.iter().find
PortMatches(p, port) == p.channel = port.channel /\ p.direction # port.direction

\* the scan returning the last match instead of the first
FindPortLast(ports, port) ==
    LET hits == {i \in 1..Len(ports) : PortMatches(ports[i], port)} IN
    IF hits = {} THEN 0 ELSE CHOOSE i \in hits : \A j \in hits : i >= j

\* ports.iter().find(..): the index of the first match, 0 for None
FindPort(ports, port) ==
    LET hits == {i \in 1..Len(ports) : PortMatches(ports[i], port)} IN
    IF hits = {} THEN 0 ELSE CHOOSE i \in hits : \A j \in hits : i <= j

\* which way the handler leaves for this port:
\*   "orphan"   the parent is not in relevant_nodes (push stays false)
\*   "mismatch" one of the two early returns
\*   "stored"   no connect rule, partner unknown, or no matching partner port
\*   "unwrap"   node_by_name names an id that relevant_nodes does not hold
\*   "link"     create_link is called
PortOutcome(port) ==
    IF ParentKey(port) \notin DOMAIN relevant_nodes THEN "orphan"
    ELSE LET parent == relevant_nodes[ParentKey(port)] IN
      IF parent.name \notin DOMAIN cfg.connect THEN "stored"
      ELSE LET rule == cfg.connect[parent.name] IN
        IF RoleMismatch(port, parent.name, rule) THEN "mismatch"
        ELSE LET other_name == OtherName(port, rule) IN
          IF other_name \notin DOMAIN node_by_name THEN "stored"
          ELSE LET other_node == node_by_name[other_name] IN
            IF other_node \notin DOMAIN relevant_nodes THEN "unwrap"
            ELSE IF FindPort(relevant_nodes[other_node].ports, port) = 0 THEN "stored"
            ELSE "link"

\* other_port, when PortOutcome(port) = "link"
OtherPort(port) ==
    LET rule == cfg.connect[relevant_nodes[ParentKey(port)].name]
        ports == relevant_nodes[node_by_name[OtherName(port, rule)]].ports
    IN  ports[FindPort(ports, port)]

\* the partner port passed as the output port whatever the direction
LinkOutPartner(port, other_port) == other_port

\* create_link(core, pin, pout): which port goes in as link.output.port
LinkOut(port, other_port) == IF port.direction = DirIn THEN other_port ELSE port
LinkIn(port, other_port) == IF port.direction = DirIn THEN port ELSE other_port

\* relevant_nodes.get_mut(&port.node).unwrap(): FALSE when the unwrap panics
PushOk(port) == port.node \in DOMAIN relevant_nodes

\* relevant_nodes.get_mut(&port.node).unwrap().ports.push(port)
PushPort(port) ==
    IF PushOk(port)
    THEN [relevant_nodes EXCEPT ![port.node].ports = Append(@, port)]
    ELSE relevant_nodes

\* link.upcast_ref().id(): an id no live proxy of temp_links holds
LocalId ==
    CHOOSE k \in 1..(Len(temp_links) + 1) :
        /\ \A i \in 1..Len(temp_links) : temp_links[i].local # k
        /\ \A j \in 1..(k - 1) : \E i \in 1..Len(temp_links) : temp_links[i].local = j

PortCreatedH(pid, node, channel, direction) ==
    /\ running
    /\ evn < MaxPortEvents
    /\ LET port == Port(pid, node, channel, direction, evn + 1)
           oc == PortOutcome(port)
       IN
       /\ evn' = evn + 1
       /\ last' = HandledPort(port)
       /\ UNCHANGED <<cfg, node_by_name, created_links>>
       /\ orphaned' = IF oc = "orphan" THEN orphaned \cup {port.ev} ELSE orphaned
       /\ misdirected' = IF oc = "mismatch" THEN misdirected \cup {port.ev} ELSE misdirected
       /\ CASE oc \in {"orphan", "mismatch"} ->
                 UNCHANGED <<relevant_nodes, temp_links, running, reqs>>
            [] oc = "stored" ->
                 /\ relevant_nodes' = PushPort(port)
                 /\ running' = PushOk(port)
                 /\ UNCHANGED <<temp_links, reqs>>
            [] oc = "unwrap" ->
                 \* Option::unwrap on None panics
                 /\ running' = FALSE
                 /\ UNCHANGED <<relevant_nodes, temp_links, reqs>>
            [] oc = "link" ->
                 \E ok \in BOOLEAN :
                    LET pout == LinkOut(port, OtherPort(port))
                        pin == LinkIn(port, OtherPort(port))
                    IN
                    IF ok
                    THEN /\ reqs' = reqs \cup {Request(pout, pin, TRUE)}
                         /\ temp_links' = Append(temp_links, TempLink(LocalId, port.ev))
                         /\ relevant_nodes' = PushPort(port)
                         /\ running' = PushOk(port)
                    ELSE \* create_object returned Err: expect() panics
                         /\ reqs' = reqs \cup {Request(pout, pin, FALSE)}
                         /\ running' = FALSE
                         /\ UNCHANGED <<relevant_nodes, temp_links>>

\* ------------------------------------------------- link info listener
\* the listener lives as long as its entry of temp_links
\* state.created_links.insert(info.id())
InfoLinks(info_id) == created_links \cup {info_id}

\* the listener dropping every pending entry
InfoTempClear(local_id) == <<>>

\* state.temp_links.retain(|(l, _)| l.upcast_ref().id() != local_id)
InfoTemp(local_id) == SelectSeq(temp_links, LAMBDA l : l.local # local_id)

\* the info event of the link proxy temp_links[i], with info.id() = gid, the
\* global id the server gave the link
LinkInfoH(i, gid) ==
    /\ running
    /\ created_links' = InfoLinks(gid)
    /\ temp_links' = InfoTemp(temp_links[i].local)
    /\ last' = NotLink
    /\ UNCHANGED <<cfg, relevant_nodes, node_by_name, running, evn, reqs,
                   orphaned, misdirected>>

\* ------------------------------------------- on_event: Type::Link arm
DestroyInbound(id, node_in) ==
    IF node_in \in DOMAIN relevant_nodes
    THEN LET name == relevant_nodes[node_in].name IN
         IF name \in DOMAIN cfg.delete_in /\ name = cfg.delete_in[name]
         THEN <<id>> ELSE <<>>
    ELSE <<>>

\* the output side looked up in delete_in instead of delete_out
DestroyOutboundByIn(id, node_out) == DestroyInbound(id, node_out)

DestroyOutbound(id, node_out) ==
    IF node_out \in DOMAIN relevant_nodes
    THEN LET name == relevant_nodes[node_out].name IN
         IF name \in DOMAIN cfg.delete_out /\ name = cfg.delete_out[name]
         THEN <<id>> ELSE <<>>
    ELSE <<>>

\* the arm without its created_links check
LinkArmUnchecked(id, node_out, node_in) ==
    DestroyInbound(id, node_in) \o DestroyOutbound(id, node_out)

\* the registry.destroy_global calls of the arm, in order
LinkArm(id, node_out, node_in) ==
    IF id \in created_links THEN <<>>
    ELSE DestroyInbound(id, node_in) \o DestroyOutbound(id, node_out)

\* a link some other client made
ConnectionCreatedH(id, node_out, node_in) ==
    /\ running
    /\ last' = Handled("link", id, node_out, node_in, LinkArm(id, node_out, node_in))
    /\ UNCHANGED <<cfg, relevant_nodes, node_by_name, created_links, temp_links,
                   running, evn, reqs, orphaned, misdirected>>

\* the registry announces, under global id gid, the link that call r made
OwnLinkGlobalH(r, gid) ==
    /\ running
    /\ r.ok
    /\ last' = Handled("link", gid, r.pout.node, r.pin.node,
                       LinkArm(gid, r.pout.node, r.pin.node))
    /\ UNCHANGED <<cfg, relevant_nodes, node_by_name, created_links, temp_links,
                   running, evn, reqs, orphaned, misdirected>>

\* ------------------------------------------- on_event: Event::Delete arm
DeleteNodes(id) ==
    IF id \in DOMAIN relevant_nodes THEN MapRemove(relevant_nodes, id)
    ELSE relevant_nodes

\* the removal leaving node_by_name alone
DeleteNamesKept(id) == node_by_name

DeleteNames(id) ==
    IF id \in DOMAIN relevant_nodes
    THEN MapRemove(node_by_name, relevant_nodes[id].name)
    ELSE node_by_name

DeleteLinks(id) == created_links \ {id}

RemovedH(id) ==
    /\ running
    /\ relevant_nodes' = DeleteNodes(id)
    /\ node_by_name' = DeleteNames(id)
    /\ created_links' = DeleteLinks(id)
    /\ last' = NotLink
    /\ UNCHANGED <<cfg, temp_links, running, evn, reqs, orphaned, misdirected>>

\* ------------------------------------------------ the registry at large
EndpointCreated ==
    \E id \in NodeIds, name \in Names :
        EndpointCreatedH(id, name) /\ UNCHANGED <<delivered, seen>>

PortCreated ==
    \E pid \in PortIds, direction \in Directions :
        PortCreatedH(pid, NodeOfPort(pid), ChannelOfPort(pid), direction)
        /\ UNCHANGED <<delivered, seen>>

\* the two ports of the scenario: 10 is an output of node 1, 20 an input of node 2
ScenarioPortCreated ==
    \E pid \in {10, 20} :
        PortCreatedH(pid, NodeOfPort(pid), ChannelOfPort(pid),
                     IF pid = 10 THEN DirOut ELSE DirIn)
        /\ UNCHANGED <<delivered, seen>>

\* links of other clients, from one node to the other
ConnectionCreated ==
    \E id \in LinkIds, ends \in {<<1, 2>>, <<2, 1>>} :
        ConnectionCreatedH(id, ends[1], ends[2]) /\ UNCHANGED <<delivered, seen>>

OwnLinkGlobal ==
    \E r \in reqs, gid \in LinkIds : OwnLinkGlobalH(r, gid) /\ UNCHANGED <<delivered, seen>>

LinkInfo ==
    \E i \in 1..Len(temp_links), gid \in LinkIds :
        LinkInfoH(i, gid) /\ UNCHANGED <<delivered, seen>>

Removed ==
    \E id \in RemovableIds : RemovedH(id) /\ UNCHANGED <<delivered, seen>>

\* the nodes of the scenarios: A and B of the connect rule, X of the delete rules
ScenarioEndpointCreated ==
    \E e \in {<<1, "A">>, <<2, "B">>, <<1, "X">>, <<2, "X">>} :
        EndpointCreatedH(e[1], e[2]) /\ UNCHANGED <<delivered, seen>>

\* every notification, over the nodes and ports of the scenarios
Next ==
    \/ ScenarioEndpointCreated
    \/ ScenarioPortCreated
    \/ OwnLinkGlobal
    \/ ConnectionCreated
    \/ LinkInfo
    \/ Removed

Spec == Init /\ [][Next]_vars

\* the scenario of one connect rule: node 1 is A, node 2 is B, port 10 is the
\* FL output of A, port 20 the FL input of B
Script == <<"node1", "node2", "port10", "port20">>

Deliver(what) ==
    CASE what = "node1" -> EndpointCreatedH(1, "A")
      [] what = "node2" -> EndpointCreatedH(2, "B")
      [] what = "port10" -> PortCreatedH(10, 1, "FL", DirOut)
      [] what = "port20" -> PortCreatedH(20, 2, "FL", DirIn)

\* the next notification of the script arrives
ScriptStep ==
    /\ delivered < Len(Script)
    /\ Deliver(Script[delivered + 1])
    /\ delivered' = delivered + 1
    /\ UNCHANGED seen

\* a notification that has been delivered arrives again, with the same ids
Replay ==
    \E i \in 1..delivered : Deliver(Script[i]) /\ UNCHANGED <<delivered, seen>>

\* the link proxies report, as in Spec
ReplayLinkInfo == LinkInfo

NextReplay ==
    \/ ScriptStep
    \/ Replay
    \/ ReplayLinkInfo

SpecReplay == Init /\ [][NextReplay]_vars

\* node, port and removal notifications, over every port and direction
NextPorts ==
    \/ EndpointCreated
    \/ PortCreated
    \/ Removed

SpecPorts == Init /\ [][NextPorts]_vars

\* the ports of the graph when each is announced once: 10 and 20 carry FL,
\* 11, 12 and 21 carry FR (two ports of node 1 share a label)
OncePortIds == {10, 11, 12, 20, 21}

\* the names the command line lists: the two names of every connect pair and
\* the delete-in and delete-out names
RuleNames ==
    {cfg.connect[n][1] : n \in DOMAIN cfg.connect}
        \cup {cfg.connect[n][2] : n \in DOMAIN cfg.connect}
        \cup {cfg.delete_in[n] : n \in DOMAIN cfg.delete_in}
        \cup {cfg.delete_out[n] : n \in DOMAIN cfg.delete_out}

\* a node of the scenario is announced, or a node under the unlisted name Z;
\* seen records the id when the name is not a listed one
EndpointNoted ==
    \E id \in NodeIds, name \in Names :
        /\ <<id, name>> \in {<<1, "A">>, <<2, "B">>, <<1, "X">>, <<2, "X">>,
                            <<1, "Z">>, <<2, "Z">>}
        /\ EndpointCreatedH(id, name)
        /\ seen' = IF name \in RuleNames THEN seen ELSE seen \cup {<<"unlisted", id>>}
        /\ UNCHANGED delivered

\* a port that has not been announced yet is announced, in either direction
PortOnce ==
    \E pid \in OncePortIds, direction \in Directions :
        /\ <<"port", pid>> \notin seen
        /\ PortCreatedH(pid, NodeOfPort(pid), ChannelOfPort(pid), direction)
        /\ seen' = seen \cup {<<"port", pid>>}
        /\ UNCHANGED delivered

\* the scenario's nodes announced and removed as they come, each port
\* announced once
NextOnce ==
    \/ ScenarioEndpointCreated
    \/ PortOnce
    \/ Removed

SpecOnce == Init /\ [][NextOnce]_vars

\* nodes announced under listed and unlisted names, with the scenario's ports
NextNames ==
    \/ EndpointNoted
    \/ ScenarioPortCreated
    \/ Removed

SpecNames == Init /\ [][NextNames]_vars

\* the scripted scenario with replays, link announcements, info events and
\* removals between its notifications
NextPending ==
    \/ ScriptStep
    \/ Replay
    \/ OwnLinkGlobal
    \/ LinkInfo
    \/ Removed

SpecPending == Init /\ [][NextPending]_vars

\* the two endpoints of the connect rule, each announced once: node 1 is A,
\* node 2 is B
EndpointOnce ==
    \E e \in {<<1, "A">>, <<2, "B">>} :
        /\ <<"node", e[1]>> \notin seen
        /\ EndpointCreatedH(e[1], e[2])
        /\ seen' = seen \cup {<<"node", e[1]>>}
        /\ UNCHANGED delivered

\* the endpoints and the ports of the rule arrive in any order, each once
NextMatch ==
    \/ EndpointOnce
    \/ PortOnce

SpecMatch == Init /\ [][NextMatch]_vars

\* a command line that names A in two connect pairs: --connect A,B --connect A,X
MultiPairs == << <<"A", "B">>, <<"A", "X">> >>

InitMulti ==
    /\ cfg = ConfigCache(MultiPairs, {}, {})
    /\ relevant_nodes = EmptyMap
    /\ node_by_name = EmptyMap
    /\ created_links = {}
    /\ temp_links = <<>>
    /\ running = TRUE
    /\ evn = 0
    /\ reqs = {}
    /\ orphaned = {}
    /\ misdirected = {}
    /\ last = NotLink
    /\ delivered = 0
    /\ seen = {}

\* the three endpoints, each announced once: node 1 is A, node 2 is B, node 3 is X
MultiEndpoints == {<<1, "A">>, <<2, "B">>, <<3, "X">>}

MultiEndpointOnce ==
    \E e \in MultiEndpoints :
        /\ <<"node", e[1]>> \notin seen
        /\ EndpointCreatedH(e[1], e[2])
        /\ seen' = seen \cup {<<"node", e[1]>>}
        /\ UNCHANGED delivered

\* the FL ports: 10 is an output of A, 20 an input of B, 30 an input of X
MultiPortIds == {10, 20, 30}

\* once every endpoint is tracked the ports arrive, each once, in any order
MultiPortOnce ==
    \E pid \in MultiPortIds :
        /\ \A e \in MultiEndpoints : <<"node", e[1]>> \in seen
        /\ <<"port", pid>> \notin seen
        /\ PortCreatedH(pid, NodeOfPort(pid), ChannelOfPort(pid),
                        IF pid = 10 THEN DirOut ELSE DirIn)
        /\ seen' = seen \cup {<<"port", pid>>}
        /\ UNCHANGED delivered

NextMulti ==
    \/ MultiEndpointOnce
    \/ MultiPortOnce
    \/ OwnLinkGlobal
    \/ LinkInfo

SpecMulti == InitMulti /\ [][NextMulti]_vars

\* the global id the server gives the link of the scripted scenario; once that
\* link is removed the server may give the id to a link of another client
OwnId == 30

\* the engine's link is live: requested, and not removed since
OwnLive == (\E r \in reqs : r.ok) /\ <<"removed", OwnId>> \notin seen

\* the registry removes the id of the engine's link, confirmed or not yet
OwnRemoved ==
    /\ OwnLive
    /\ RemovedH(OwnId)
    /\ seen' = seen \cup {<<"removed", OwnId>>}
    /\ UNCHANGED delivered

\* the info event of the engine's link, carrying the link's id
OwnLinkInfo ==
    \E i \in 1..Len(temp_links) : LinkInfoH(i, OwnId) /\ UNCHANGED <<delivered, seen>>

\* a link of another client is announced; it has the id of the engine's link
\* only while that link is not live
ForeignCreated ==
    \E id \in LinkIds, ends \in {<<1, 2>>, <<2, 1>>} :
        /\ id = OwnId => ~OwnLive
        /\ ConnectionCreatedH(id, ends[1], ends[2])
        /\ UNCHANGED <<delivered, seen>>

\* a node is removed
EndpointRemoved ==
    \E id \in NodeIds : RemovedH(id) /\ UNCHANGED <<delivered, seen>>

\* the scripted scenario, the life of its link, links of other clients, and
\* nodes going away
NextReuse ==
    \/ ScriptStep
    \/ OwnLinkInfo
    \/ OwnRemoved
    \/ ForeignCreated
    \/ EndpointRemoved

SpecReuse == Init /\ [][NextReuse]_vars

\* ======================================================================
\* Claims
\* ======================================================================

\* a tracked endpoint whose name is flagged destroyInbound / destroyOutbound
FlaggedIn(node) ==
    node \in DOMAIN relevant_nodes /\ relevant_nodes[node].name \in DOMAIN cfg.delete_in
FlaggedOut(node) ==
    node \in DOMAIN relevant_nodes /\ relevant_nodes[node].name \in DOMAIN cfg.delete_out

\* C1: a ConnectionCreated notification whose id is in created_links when it
\* is handled makes no destroy_global call, whatever flags its endpoints have.
\* (The Link arm changes neither created_links nor relevant_nodes, so the
\* state after the step shows what the handler saw.)
C1_CreatedLinkNotDestroyed ==
    (last.kind = "link" /\ last.id \in created_links) => last.destroyed = <<>>

\* a link in created_links, with a flagged endpoint, has been announced
C1_Witness ==
    /\ last.kind = "link"
    /\ last.id \in created_links
    /\ FlaggedIn(last.node_in) \/ FlaggedOut(last.node_out)
    /\ last.destroyed = <<>>

\* C2: the announcement of a link the engine asked for never makes the engine
\* call destroy_global, in whatever order the announcement and the info event
\* of the link's proxy arrive.
C2_OwnLinkNeverDestroyed ==
    [][\A r \in reqs, gid \in LinkIds :
          OwnLinkGlobalH(r, gid) => last'.destroyed = <<>>]_vars

\* C8: a ConnectionCreated notification whose id is not in created_links makes
\* the engine call destroy_global(id) when its input endpoint is tracked and
\* flagged destroyInbound or its output endpoint is tracked and flagged
\* destroyOutbound, and makes it call nothing when neither is.
C8_DeletionRuleFires ==
    (last.kind = "link" /\ last.id \notin created_links) =>
        /\ (FlaggedIn(last.node_in) \/ FlaggedOut(last.node_out))
              <=> (last.destroyed # <<>>)
        /\ \A i \in 1..Len(last.destroyed) : last.destroyed[i] = last.id

\* a foreign link was destroyed for its output side alone
C8_Witness ==
    /\ last.kind = "link"
    /\ last.id \notin created_links
    /\ FlaggedOut(last.node_out) /\ ~FlaggedIn(last.node_in)
    /\ last.destroyed = <<last.id>>

\* C3: with one connect rule (A, B), one OUT port on A and one IN port on B of
\* the same channel, exactly one create_link call is made, however often the
\* node and port notifications are delivered again with the same ids.
C3_ExactlyOneRequest ==
    delivered = Len(Script) => Cardinality(reqs) = 1

\* the port's parent is tracked and has a connect rule, and the port's
\* direction is not the one the rule gives that endpoint
Contradicts(port) ==
    /\ port.node \in DOMAIN relevant_nodes
    /\ relevant_nodes[port.node].name \in DOMAIN cfg.connect
    /\ LET name == relevant_nodes[port.node].name
           output_name == cfg.connect[name][1]
           input_name == cfg.connect[name][2]
       IN  \/ port.direction = DirIn /\ name # input_name
           \/ port.direction = DirOut /\ name # output_name

\* C4: a PortCreated notification whose direction contradicts the role of its
\* tracked parent makes no create_link call and changes no engine state, and
\* that port is in no create_link call ever.
C4_DirectionGuard ==
    [][ /\ (last'.kind = "port" /\ Contradicts(last'.port)) =>
              /\ reqs' = reqs
              /\ UNCHANGED <<state, running>>
              /\ last'.port.ev \in misdirected'
        /\ \A r \in reqs' : r.pout.ev \notin misdirected' /\ r.pin.ev \notin misdirected'
      ]_vars

\* a port was dropped at the direction check while the endpoint the handler
\* would have scanned holds a port of the same channel and the other direction
C4_Witness ==
    /\ last.kind = "port"
    /\ last.port.ev \in misdirected
    /\ \E n \in DOMAIN relevant_nodes : \E i \in 1..Len(relevant_nodes[n].ports) :
          PortMatches(relevant_nodes[n].ports[i], last.port)

\* C5: a create_link call that fails does not stop the engine.
C5_RejectionNotFatal ==
    (\E r \in reqs : ~r.ok) => running

\* C6: node_by_name[n] = i exactly when relevant_nodes holds i with name n.
C6_NameIndexConsistent ==
    \A n \in Names, i \in NodeIds :
        (n \in DOMAIN node_by_name /\ node_by_name[n] = i)
            <=> (i \in DOMAIN relevant_nodes /\ relevant_nodes[i].name = n)

\* C7: every create_link call links an OUT port of the tracked endpoint named
\* as a rule's output to an IN port of the tracked endpoint named as that
\* rule's input, the two ports having the same channel.
C7_RequestsFollowRule ==
    [][\A r \in reqs' \ reqs :
          /\ r.pout.direction = DirOut /\ r.pin.direction = DirIn
          /\ r.pout.channel = r.pin.channel
          /\ r.pout.node \in DOMAIN relevant_nodes'
          /\ r.pin.node \in DOMAIN relevant_nodes'
          /\ \E n \in DOMAIN cfg.connect :
                /\ relevant_nodes'[r.pout.node].name = cfg.connect[n][1]
                /\ relevant_nodes'[r.pin.node].name = cfg.connect[n][2]
      ]_vars

\* C9: a PortCreated notification whose parent is not tracked changes no engine
\* state and makes no call; the port is in no port list and in no create_link
\* call ever, also once its parent's id is tracked.
C9_OrphanPortDropped ==
    [][ /\ (last'.kind = "port" /\ last'.port.node \notin DOMAIN relevant_nodes) =>
              /\ reqs' = reqs
              /\ UNCHANGED <<state, running>>
              /\ last'.port.ev \in orphaned'
        /\ \A ev \in orphaned' :
              /\ \A r \in reqs' : r.pout.ev # ev /\ r.pin.ev # ev
              /\ \A n \in DOMAIN relevant_nodes' :
                    \A i \in 1..Len(relevant_nodes'[n].ports) :
                        relevant_nodes'[n].ports[i].ev # ev
      ]_vars

\* a port was dropped as an orphan, and a later call linked ports of two
\* nodes: both node ids, the orphan's among them, were tracked by then
C9_Witness ==
    \E ev \in orphaned, r \in reqs :
        CallOf(r) > ev /\ r.ok /\ r.pout.node # r.pin.node

\* C10: removing a tracked endpoint takes it, its ports and its name's index
\* entry away; the id stays untracked until an EndpointCreated for it, and a
\* PortCreated naming it meanwhile changes no engine state and makes no call.
C10_CleanupOnRemoval ==
    [][\A id \in NodeIds :
          /\ (id \in DOMAIN relevant_nodes /\ RemovedH(id)) =>
                /\ id \notin DOMAIN relevant_nodes'
                /\ relevant_nodes[id].name \notin DOMAIN node_by_name'
                /\ \A n \in DOMAIN relevant_nodes' :
                      \A i \in 1..Len(relevant_nodes'[n].ports) :
                          relevant_nodes'[n].ports[i].node # id
          /\ (id \notin DOMAIN relevant_nodes /\ id \in DOMAIN relevant_nodes') =>
                \E name \in Names : EndpointCreatedH(id, name)
          /\ (id \notin DOMAIN relevant_nodes /\ last'.kind = "port"
                  /\ last'.port.node = id) =>
                /\ reqs' = reqs
                /\ UNCHANGED <<state, running>>
      ]_vars

\* a call linked ports of both nodes, and a later port was dropped as an
\* orphan: its parent had been removed in between
C10_Witness ==
    /\ last.kind = "port"
    /\ last.port.ev \in orphaned
    /\ \E r \in reqs : CallOf(r) < last.port.ev /\ r.ok /\ r.pout.node # r.pin.node

\* C11: a PortCreated notification whose parent is tracked leaves the port as
\* the last element of the parent's port list, whatever its direction and
\* whether or not the parent has a connect rule, a partner or an agreeing role.
C11_PortStoredLast ==
    [][(last'.kind = "port" /\ last'.port.node \in DOMAIN relevant_nodes) =>
          /\ last'.port.node \in DOMAIN relevant_nodes'
          /\ LET ports == relevant_nodes'[last'.port.node].ports IN
             Len(ports) > 0 /\ ports[Len(ports)] = last'.port
      ]_vars

\* C12: every endpoint in relevant_nodes has a name the command line lists (in
\* a connect pair, as a delete-in name or as a delete-out name), and an
\* EndpointCreated notification with any other name changes no engine state
\* and makes no call.
C12_OnlyRuleEndpointsTracked ==
    [][ /\ \A id \in DOMAIN relevant_nodes' : relevant_nodes'[id].name \in RuleNames
        /\ \A id \in NodeIds, name \in Names \ RuleNames :
              EndpointCreatedH(id, name) =>
                  (reqs' = reqs /\ UNCHANGED <<state, running>>)
      ]_vars

\* a node was announced under an unlisted name and is not tracked, while a
\* node with a delete-only name is
C12_Witness ==
    /\ <<"unlisted", 1>> \in seen
    /\ 1 \notin DOMAIN relevant_nodes
    /\ 2 \in DOMAIN relevant_nodes /\ relevant_nodes[2].name = "X"

\* seq without its i-th element
WithoutEntry(seq, i) == SubSeq(seq, 1, i - 1) \o SubSeq(seq, i + 1, Len(seq))

\* C13: every successful create_link call adds exactly one entry to temp_links;
\* the info event of a pending link, carrying id k, adds k to created_links
\* and removes that link's entry and no other; no other step removes a pending
\* entry or adds to created_links.
C13_PendingToConfirmed ==
    [][ /\ \A r \in reqs' \ reqs : r.ok =>
              /\ Len(temp_links') = Len(temp_links) + 1
              /\ SubSeq(temp_links', 1, Len(temp_links)) = temp_links
              /\ temp_links'[Len(temp_links')].call = CallOf(r)
        /\ \A i \in 1..Len(temp_links), gid \in LinkIds :
              LinkInfoH(i, gid) =>
                  /\ created_links' = created_links \cup {gid}
                  /\ temp_links' = WithoutEntry(temp_links, i)
        /\ (~ \E i \in 1..Len(temp_links), gid \in LinkIds : LinkInfoH(i, gid)) =>
              /\ created_links' \subseteq created_links
              /\ Len(temp_links') >= Len(temp_links)
              /\ SubSeq(temp_links', 1, Len(temp_links)) = temp_links
              /\ Len(temp_links') > Len(temp_links) => \E r \in reqs' \ reqs : r.ok
      ]_vars

\* two calls succeeded, one link was confirmed with id 30, and the entry of
\* the other is still pending
C13_Witness ==
    /\ Cardinality({r \in reqs : r.ok}) = 2
    /\ created_links = {30}
    /\ Len(temp_links) = 1
    /\ last = NotLink

\* C14: when each port id is announced at most once, no two create_link calls
\* name the same (output port id, input port id) pair, and one PortCreated
\* notification makes at most one call.  (Under SpecOnce no info event is
\* delivered, so temp_links lists the successful calls, each with the number
\* of the notification that made it; a failed call stops the engine.)
C14_NoDuplicateRequests ==
    /\ \A r1, r2 \in reqs :
          (r1.pout.id = r2.pout.id /\ r1.pin.id = r2.pin.id) => r1 = r2
    /\ Len(temp_links) = Cardinality({r \in reqs : r.ok})
    /\ Cardinality({r \in reqs : ~r.ok}) <= 1
    /\ \A i, j \in 1..Len(temp_links) :
          temp_links[i].call = temp_links[j].call => i = j

\* two successful calls share an input port: two output ports of one label
\* were each linked to it
C14_Witness ==
    \E r1, r2 \in reqs :
        /\ r1.ok /\ r2.ok
        /\ r1.pin.id = r2.pin.id
        /\ r1.pout.id # r2.pout.id

\* the tracked endpoints that the connect rule of port's parent names as the
\* other side
Partners(port) ==
    LET name == relevant_nodes[port.node].name
        rule == cfg.connect[name]
        other == IF port.direction = DirIn THEN rule[1] ELSE rule[2]
    IN  {n \in DOMAIN relevant_nodes : relevant_nodes[n].name = other}

\* the ports stored on a partner endpoint that carry port's channel label in
\* the opposite direction
Candidates(port) ==
    {p \in UNION {{relevant_nodes[n].ports[i] : i \in 1..Len(relevant_nodes[n].ports)} :
                    n \in Partners(port)} :
        p.channel = port.channel /\ p.direction # port.direction}

\* port arrives on a tracked endpoint with a connect rule, in the direction
\* the rule gives that endpoint
CorrectlyDirected(port) ==
    /\ port.node \in DOMAIN relevant_nodes
    /\ relevant_nodes[port.node].name \in DOMAIN cfg.connect
    /\ ~Contradicts(port)

\* port is the last element of its parent's port list after the step
StoredLast(port) ==
    /\ port.node \in DOMAIN relevant_nodes'
    /\ LET ports == relevant_nodes'[port.node].ports IN
       Len(ports) > 0 /\ ports[Len(ports)] = port

\* C15, first half: a correctly-directed port that finds its partner endpoint
\* untracked or without a port of its label and the opposite direction makes
\* no call and is stored.
C15_DeferredStored ==
    (last'.kind = "port" /\ CorrectlyDirected(last'.port) /\ Candidates(last'.port) = {})
        => (reqs' = reqs /\ StoredLast(last'.port))

\* C15 as stated: ... and when a port q of the same label and the opposite
\* direction later arrives on the tracked partner, a create_link call for
\* {p, q} is made while q is handled, for every such stored port p.
C15_DeferredMatch ==
    [][ /\ C15_DeferredStored
        /\ (last'.kind = "port" /\ CorrectlyDirected(last'.port)) =>
              \A p \in Candidates(last'.port) :
                  \E r \in reqs' \ reqs : {r.pout, r.pin} = {p, last'.port}
      ]_vars

\* C15 amended: ... a create_link call is made while q is handled, for q and
\* the earliest stored port of the partner with q's label and the opposite
\* direction (p itself unless an earlier such port is stored).
C15_DeferredMatchFirst ==
    [][ /\ C15_DeferredStored
        /\ (last'.kind = "port" /\ CorrectlyDirected(last'.port)
                /\ Candidates(last'.port) # {}) =>
              \E p \in Candidates(last'.port) :
                  /\ \A c \in Candidates(last'.port) : p.ev <= c.ev
                  /\ \E r \in reqs' \ reqs : {r.pout, r.pin} = {p, last'.port}
      ]_vars

\* an input port waited on B, stored without a call, and the call was made
\* when the output port of its label arrived on A (the order opposite to the
\* scenario's); another port waits on B still
C15_Witness ==
    /\ last.kind = "port" /\ last.port.direction = DirOut
    /\ \E r \in reqs : r.pout = last.port /\ r.pin.ev < last.port.ev /\ r.pin.node = 2
    /\ Len(relevant_nodes[2].ports) = 2

\* C16: when the partner's port list holds several ports of the arriving
\* port's label and the opposite direction, the one create_link call of the
\* step pairs the arriving port with the one appended earliest, and no call is
\* made for the others.
C16_FirstMatchWins ==
    [][ (last'.kind = "port" /\ CorrectlyDirected(last'.port)
            /\ Cardinality(Candidates(last'.port)) > 1) =>
          \E n \in Partners(last'.port) :
              LET ports == relevant_nodes[n].ports
                  hits == {i \in 1..Len(ports) : ports[i] \in Candidates(last'.port)}
                  first == CHOOSE i \in hits : \A j \in hits : i <= j
              IN  /\ Cardinality(reqs' \ reqs) = 1
                  /\ \A r \in reqs' \ reqs :
                        IF last'.port.direction = DirIn
                        THEN r.pout = ports[first] /\ r.pin = last'.port
                        ELSE r.pout = last'.port /\ r.pin = ports[first]
      ]_vars

\* the latest port was linked to the first of two waiting ports of its label
C16_Witness ==
    /\ last.kind = "port"
    /\ \E r \in reqs, n \in DOMAIN relevant_nodes :
          LET ports == relevant_nodes[n].ports IN
          /\ CallOf(r) = last.port.ev
          /\ n # last.port.node
          /\ Len(ports) = 2
          /\ PortMatches(ports[1], last.port) /\ PortMatches(ports[2], last.port)
          /\ ports[1] \in {r.pout, r.pin}

\* C17: a removal notification for id x, whatever x was, leaves x out of
\* relevant_nodes, out of the values of node_by_name and out of created_links,
\* and changes no entry that does not refer to x.  (An entry of temp_links
\* holds the proxy of a link, not the link's id: the clause on pending entries
\* has no counterpart in the state; the handler leaves temp_links alone.)
C17_UnifiedPurge ==
    [][\A x \in RemovableIds : RemovedH(x) =>
          /\ x \notin DOMAIN relevant_nodes'
          /\ \A n \in DOMAIN node_by_name' : node_by_name'[n] # x
          /\ x \notin created_links'
          /\ \A i \in DOMAIN relevant_nodes \ {x} :
                i \in DOMAIN relevant_nodes' /\ relevant_nodes'[i] = relevant_nodes[i]
          /\ \A n \in DOMAIN node_by_name : node_by_name[n] # x =>
                n \in DOMAIN node_by_name' /\ node_by_name'[n] = node_by_name[n]
          /\ created_links' = created_links \ {x}
          /\ temp_links' = temp_links
      ]_vars

\* C18: every id that node_by_name holds as a value is a key of
\* relevant_nodes, so the partner lookup of the Port arm never unwraps None:
\* the engine stops for no reason but a failed create_link call.
C18_IndexNeverDangles ==
    /\ \A n \in DOMAIN node_by_name : node_by_name[n] \in DOMAIN relevant_nodes
    /\ running \/ \E r \in reqs : ~r.ok

\* the ports stored on the tracked endpoints named name
PortsOf(name) ==
    UNION {{relevant_nodes[n].ports[i] : i \in 1..Len(relevant_nodes[n].ports)} :
             n \in {m \in DOMAIN relevant_nodes : relevant_nodes[m].name = name}}

\* one (output port id, input port id) pair for every configured pair whose
\* endpoints hold an OUT and an IN port of one label
ExpectedPairs ==
    UNION {{<<po.id, pi.id>> :
               po \in {p \in PortsOf(MultiPairs[k][1]) : p.direction = DirOut},
               pi \in {p \in PortsOf(MultiPairs[k][2]) : p.direction = DirIn}}
             : k \in 1..Len(MultiPairs)}

\* C19: with every endpoint tracked before the first port and each port
\* announced once, the set of (output port, input port) pairs passed to
\* create_link once all ports have arrived is the same for every arrival
\* order: it is the set with one pair for every configured (output, input)
\* pair whose endpoints hold OUT and IN ports of one label.  (Runs that a
\* failed create_link call has stopped are left aside.)
C19_OrderIndependent ==
    (running /\ \A pid \in MultiPortIds : <<"port", pid>> \in seen) =>
        {<<r.pout.id, r.pin.id>> : r \in reqs} = ExpectedPairs

\* C20: every id in created_links is the id of a link the engine requested,
\* that was confirmed and has not been removed since, in whatever order the
\* info event and the removal arrive; so a link of another client that
\* touches a tracked flagged endpoint is destroyed, also when it has the id
\* the engine's link had.  (Under SpecReuse every Link notification is for a
\* link of another client.)
C20_NoStaleExemption ==
    /\ \A id \in created_links : id = OwnId /\ OwnLive
    /\ (last.kind = "link" /\ (FlaggedIn(last.node_in) \/ FlaggedOut(last.node_out)))
          => last.destroyed # <<>>

====
